---- MODULE Spec2Model ----
(***************************************************************************)
(* Model of fix-all-schemas.py: the text patcher add_additional_properties *)
(* (a pure function of a file's text), process_file and main.              *)
(*                                                                         *)
(* A text is a sequence of tokens.  A token is one character of interest   *)
(* ("{", "}", a space, a tab, a newline) or one of the substrings the code *)
(* searches for; every other run of characters is an opaque word.  The     *)
(* substring tests, str.count, str.split, str.lstrip and str.join of the   *)
(* code are computed on that representation.                               *)
(***************************************************************************)
EXTENDS Integers, Sequences, FiniteSets, TLC

VARIABLES
    content,        \* SpecPatch: the text handed to add_additional_properties
    new_content,    \* SpecPatch: the text it returned (once pass > 0)
    pass,           \* SpecPatch: how many passes have run
    pc,             \* Spec: where main is
    root_exists,    \* Spec: whether src/tools exists
    js_files,       \* Spec: len(js_files), fixed at enumeration
    done_files,     \* Spec: how many files the for loop has processed
    fixed_count,    \* Spec: main's fixed_count
    exit_status,    \* Spec: the process's exit status, None while running
    summary,        \* Spec: the summary line printed, <<>> when none
    stderr_lines,   \* Spec: lines written to the error stream
    fixed_lines,    \* Spec: "Fixed: <path>" lines written to stdout
    opened_w,       \* Spec: files opened for writing so far
    changed_files,  \* Spec: files whose content on disk differs from before the run
    last            \* Spec: the last process_file call: the file before and after, and what it did

patch_vars == <<content, new_content, pass>>
main_vars == <<pc, root_exists, js_files, done_files, fixed_count, exit_status,
               summary, stderr_lines, fixed_lines, opened_w, changed_files, last>>
vars == <<content, new_content, pass, pc, root_exists, js_files, done_files,
          fixed_count, exit_status, summary, stderr_lines, fixed_lines, opened_w,
          changed_files, last>>

(***************************************************************************)
(* Bounds of the model.                                                    *)
(***************************************************************************)
\* Longest text, in lines, of the exhaustively enumerated inputs.
MaxLen == 4
\* Longest text, in lines, of a file of the tree main walks.
MaxFileLen == 2
\* Most files under src/tools.
MaxFiles == 2
\* Most passes of the patcher over one text.
MaxPass == 2
\* Longest head, in lines, of a long text (head, padding, tail).
MaxHead == 2
\* The paddings of the long texts are Window - PadSlack .. Window lines long.
PadSlack == 4

(***************************************************************************)
(* Program constants.                                                      *)
(***************************************************************************)
\* range(i + 1, min(i + 200, len(lines)))
Window == 200
\* ' ' * (indent + 4)
IndentStep == 4
\* closing_brace_line = None
None == -1

(***************************************************************************)
(* Tokens.                                                                 *)
(***************************************************************************)
NL == "\n"
SP == " "
TAB == "\t"
LBrace == "{"
RBrace == "}"
MarkerSQ == "type: 'object'"
MarkerDQ == "type: \"object\""
PropsTok == "properties:"
AddlTok == "additionalProperties:"
FalseTok == "false,"
TrueTok == "true,"
Word == "x"

\* str.lstrip() strips these.
Whitespace == {SP, TAB}

Min(a, b) == IF a < b THEN a ELSE b

(***************************************************************************)
(* The string primitives the code uses.                                    *)
(***************************************************************************)
\* `sub in s` for a one-token substring.
In(sub, s) == \E k \in 1..Len(s) : s[k] = sub

\* s.count(ch)
count(s, ch) == Cardinality({k \in 1..Len(s) : s[k] = ch})

\* split of a concatenation: the last line of the left part and the first
\* line of the right part are one line.
split_concat(a, b) ==
    SubSeq(a, 1, Len(a) - 1) \o <<a[Len(a)] \o b[1]>> \o SubSeq(b, 2, Len(b))

\* The characters s[lo..hi] split at newlines, by halves: a newline alone is
\* two empty lines, any other character alone is one line.
RECURSIVE split_range(_, _, _)
split_range(s, lo, hi) ==
    IF lo > hi THEN <<(<<>>)>>
    ELSE IF lo = hi THEN (IF s[lo] = NL THEN <<(<<>>), (<<>>)>> ELSE <<(<<s[lo]>>)>>)
    ELSE LET mid == (lo + hi) \div 2
         IN  split_concat(split_range(s, lo, mid), split_range(s, mid + 1, hi))

\* content.split('\n'): always at least one line.
split(s) == split_range(s, 1, Len(s))

\* The lines ls[lo..hi] joined by newlines, by halves.
RECURSIVE join_range(_, _, _)
join_range(ls, lo, hi) ==
    IF lo > hi THEN <<>>
    ELSE IF lo = hi THEN ls[lo]
    ELSE LET mid == (lo + hi) \div 2
         IN  join_range(ls, lo, mid) \o <<NL>> \o join_range(ls, mid + 1, hi)

\* '\n'.join(result)
join(ls) == join_range(ls, 1, Len(ls))

\* line.lstrip()
RECURSIVE lstrip(_)
lstrip(line) ==
    IF Len(line) > 0 /\ line[1] \in Whitespace THEN lstrip(Tail(line)) ELSE line

\* ' ' * n
RECURSIVE spaces(_)
spaces(n) == IF n <= 0 THEN <<>> ELSE <<SP>> \o spaces(n - 1)

(***************************************************************************)
(* add_additional_properties.  Indices i, j, k are the code's 0-based      *)
(* indices into lines; lines[i] of the code is lines[i + 1] here.          *)
(***************************************************************************)
\* "type: 'object'" in line or 'type: "object"' in line
is_object_line(line) == In(MarkerSQ, line) \/ In(MarkerDQ, line)

\* scan_stop looking one line further.
scan_stop_one_more(i, n) == Min(i + Window + 1, n)

\* The exclusive end of the forward scan: min(i + 200, len(lines)).
scan_stop(i, n) == Min(i + Window, n)

\* The body of `for j in range(i + 1, stop)` at j.  st holds has_properties,
\* has_additional_properties, closing_brace_line and brace_depth.
scan_step(lines, j, st) ==
    LET forward_line == lines[j + 1]
        bd == st.brace_depth + count(forward_line, LBrace)
                             - count(forward_line, RBrace)
    IN  [has_properties |->
             st.has_properties
             \/ (In(PropsTok, forward_line) /\ st.brace_depth > 0),
         has_additional_properties |->
             st.has_additional_properties \/ In(AddlTok, forward_line),
         closing_brace_line |-> IF bd = 0 THEN j ELSE None,
         brace_depth |-> bd]

\* The iterations j = lo .. hi - 1 of the for loop in order, folded by
\* halves; the loop breaks as soon as closing_brace_line is set.
RECURSIVE scan_forward(_, _, _, _)
scan_forward(lines, lo, hi, st) ==
    IF lo >= hi \/ st.closing_brace_line # None THEN st
    ELSE IF hi - lo = 1 THEN scan_step(lines, lo, st)
    ELSE LET mid == (lo + hi) \div 2
         IN  scan_forward(lines, mid, hi, scan_forward(lines, lo, mid, st))

\* The look-ahead opened at a marker line i.
block_scan(lines, i) ==
    scan_forward(lines, i + 1, scan_stop(i, Len(lines)),
        [has_properties |-> FALSE, has_additional_properties |-> FALSE,
         closing_brace_line |-> None,
         brace_depth |-> count(lines[i + 1], LBrace) - count(lines[i + 1], RBrace)])

\* Python's truth value of closing_brace_line: None and 0 are false.
truthy(x) == x # None /\ x # 0

\* f"{indent_str}additionalProperties: false," for a closing line.
synthesized(closing_line) ==
    LET indent == Len(closing_line) - Len(lstrip(closing_line))
    IN  spaces(indent + IndentStep) \o <<AddlTok, FalseTok>>

\* inserts without the test of has_additional_properties.
inserts_despite_additional(sc) ==
    sc.has_properties /\ truthy(sc.closing_brace_line)

\* inserts without the test of has_properties.
inserts_without_properties(sc) ==
    ~sc.has_additional_properties /\ truthy(sc.closing_brace_line)

\* `if has_properties and not has_additional_properties and closing_brace_line`
inserts(sc) ==
    sc.has_properties /\ ~sc.has_additional_properties
    /\ truthy(sc.closing_brace_line)

\* while_body without `result.append(closing_line)`.
while_body_dropping_closing(lines, i) ==
    LET line == lines[i + 1]
    IN  IF is_object_line(line) /\ inserts(block_scan(lines, i))
        THEN LET c == block_scan(lines, i).closing_brace_line
             IN  [emit |-> <<line>> \o SubSeq(lines, i + 2, c)
                           \o <<synthesized(lines[c + 1])>>,
                  next |-> c + 1]
        ELSE [emit |-> <<line>>, next |-> i + 1]


\* One iteration of the while loop at cursor i: the lines it appends to
\* result and the cursor it leaves.
while_body(lines, i) ==
    LET line == lines[i + 1]
    IN  IF is_object_line(line) /\ inserts(block_scan(lines, i))
        THEN LET c == block_scan(lines, i).closing_brace_line
                 closing_line == lines[c + 1]
             IN  [emit |-> <<line>> \o SubSeq(lines, i + 2, c)
                           \o <<synthesized(closing_line), closing_line>>,
                  next |-> c + 1]
        ELSE [emit |-> <<line>>, next |-> i + 1]

\* The while loop's iterations whose cursor lies in lo .. hi - 1, in order,
\* folded by halves.  st holds the cursor i and result.
RECURSIVE while_range(_, _, _, _)
while_range(lines, lo, hi, st) ==
    IF lo >= hi \/ st.i >= hi THEN st
    ELSE IF hi - lo = 1
    THEN LET b == while_body(lines, st.i)
         IN  [i |-> b.next, result |-> st.result \o b.emit]
    ELSE LET mid == (lo + hi) \div 2
         IN  while_range(lines, mid, hi, while_range(lines, lo, mid, st))

\* `while i < len(lines)` from i = 0 and result = [].
while_loop(lines) ==
    while_range(lines, 0, Len(lines), [i |-> 0, result |-> <<>>]).result

add_additional_properties(text) == join(while_loop(split(text)))

(***************************************************************************)
(* process_file.  text is the file's content before the call; fault says   *)
(* which file operation of this call raises: "read" the open/read of lines *)
(* 73-74, "open_w" the open for writing of line 84 (the file is not        *)
(* touched), "write" the write or close of lines 84-85 after the open has  *)
(* truncated the file (only the first cut characters reach the disk, all   *)
(* of them when it is the close that raises).  A fault of an operation the *)
(* call never reaches does not occur.                                      *)
(***************************************************************************)
Faults == {"none", "read", "open_w", "write"}

\* no_object_schema with the two `not` lost.
no_object_schema_inverted(text) == In(MarkerSQ, text) /\ In(MarkerDQ, text)

\* "type: 'object'" not in content and 'type: "object"' not in content
no_object_schema(text) == ~In(MarkerSQ, text) /\ ~In(MarkerDQ, text)

\* The except clause returning True.
except_return_true == TRUE

\* `except Exception as e: print(..., file=sys.stderr); return False`
except_return == FALSE

\* content_changed without the comparison: every file with a marker is written.
content_changed_always(new_text, text) == TRUE

\* `if new_content != content`
content_changed(new_text, text) == new_text # text

process_file(text, fault, cut) ==
    LET new_text == add_additional_properties(text)
        quiet == [returned |-> FALSE, disk |-> text, fixed_line |-> 0,
                  stderr_line |-> 0, opened |-> FALSE, patched |-> FALSE]
    IN  IF fault = "read"
        THEN [quiet EXCEPT !.returned = except_return, !.stderr_line = 1]
        ELSE IF no_object_schema(text)
        THEN quiet
        ELSE IF ~content_changed(new_text, text)
        THEN [quiet EXCEPT !.patched = TRUE]
        ELSE IF fault = "open_w"
        THEN [quiet EXCEPT !.returned = except_return, !.patched = TRUE,
                           !.stderr_line = 1]
        ELSE IF fault = "write"
        THEN [returned |-> except_return, disk |-> SubSeq(new_text, 1, cut),
              fixed_line |-> 0, stderr_line |-> 1,
              opened |-> TRUE, patched |-> TRUE]
        ELSE [returned |-> TRUE, disk |-> new_text,
              fixed_line |-> 1, stderr_line |-> 0,
              opened |-> TRUE, patched |-> TRUE]

(***************************************************************************)
(* The input texts.                                                        *)
(***************************************************************************)
ObjOpen == <<LBrace, MarkerSQ>>
ObjBare == <<SP, MarkerDQ>>
PropsOpen == <<SP, PropsTok, LBrace>>
PropsShut == <<SP, PropsTok, LBrace, RBrace, RBrace>>
Close == <<RBrace>>
CloseIndented == <<TAB, SP, RBrace>>
AddlTrue == <<SP, AddlTok, TrueTok>>
Blank == <<>>
Filler == <<Word>>

Alphabet == {ObjOpen, ObjBare, PropsOpen, PropsShut, Close, CloseIndented,
             AddlTrue, Blank}
HeadAlphabet == {ObjOpen, ObjBare, PropsOpen}
TailAlphabet == {Close, CloseIndented}
FileAlphabet == {ObjOpen, PropsShut, Blank}

LinesUpTo(S, n) == UNION {[1..m -> S] : m \in 1..n}

\* Every text of 1 .. MaxLen lines over Alphabet.
Texts == {join(ls) : ls \in LinesUpTo(Alphabet, MaxLen)}

\* The texts of the files under src/tools.
FileTexts == {join(ls) : ls \in LinesUpTo(FileAlphabet, MaxFileLen)}

\* Texts longer than the look-ahead: a head, Window - PadSlack .. Window
\* filler lines, and a tail of one or two closing lines.
LongTexts ==
    {join(h \o [j \in 1..k |-> Filler] \o t) :
        h \in LinesUpTo(HeadAlphabet, MaxHead),
        k \in (Window - PadSlack)..Window,
        t \in LinesUpTo(TailAlphabet, 2)}

(***************************************************************************)
(* SpecPatch: add_additional_properties applied to a text, and applied     *)
(* again to what it returned (a second run over the same tree).            *)
(***************************************************************************)
NoCall == [content |-> <<>>, disk |-> <<>>, returned |-> FALSE, fault |-> "none",
           raised |-> FALSE, opened |-> FALSE, patched |-> FALSE]

MainIdle ==
    /\ pc = "idle" /\ root_exists = TRUE /\ js_files = 0 /\ done_files = 0
    /\ fixed_count = 0 /\ exit_status = None /\ summary = <<>>
    /\ stderr_lines = 0 /\ fixed_lines = 0 /\ opened_w = 0 /\ changed_files = 0
    /\ last = NoCall

InitPatch ==
    /\ content \in Texts \cup LongTexts
    /\ new_content = <<>>
    /\ pass = 0
    /\ MainIdle

Patch ==
    /\ pc = "idle" /\ pass = 0
    /\ new_content' = add_additional_properties(content)
    /\ pass' = 1
    /\ UNCHANGED <<content, main_vars>>

Rerun ==
    /\ pc = "idle" /\ pass >= 1 /\ pass < MaxPass
    /\ content' = new_content
    /\ new_content' = add_additional_properties(new_content)
    /\ pass' = pass + 1
    /\ UNCHANGED main_vars

NextPatch == Patch \/ Rerun

SpecPatch == InitPatch /\ [][NextPatch]_vars

(***************************************************************************)
(* Spec: main.                                                             *)
(***************************************************************************)
Init ==
    /\ pc = "start"
    /\ root_exists \in BOOLEAN
    /\ js_files = 0 /\ done_files = 0 /\ fixed_count = 0
    /\ exit_status = None /\ summary = <<>>
    /\ stderr_lines = 0 /\ fixed_lines = 0 /\ opened_w = 0 /\ changed_files = 0
    /\ last = NoCall
    /\ content = <<>> /\ new_content = <<>> /\ pass = 0

\* RootMissing without sys.exit(1): main goes on with an empty file list.
RootMissingNoExit ==
    /\ pc = "start" /\ ~root_exists
    /\ stderr_lines' = stderr_lines + 1
    /\ js_files' = 0
    /\ pc' = "loop"
    /\ UNCHANGED <<patch_vars, root_exists, done_files, fixed_count, exit_status,
                   summary, fixed_lines, opened_w, changed_files, last>>

\* `if not tools_dir.exists(): print(..., file=sys.stderr); sys.exit(1)`
RootMissing ==
    /\ pc = "start" /\ ~root_exists
    /\ stderr_lines' = stderr_lines + 1
    /\ exit_status' = 1
    /\ pc' = "exited"
    /\ UNCHANGED <<patch_vars, root_exists, js_files, done_files, fixed_count,
                   summary, fixed_lines, opened_w, changed_files, last>>

\* `js_files = list(tools_dir.rglob('*.js')); fixed_count = 0`
Enumerate ==
    /\ pc = "start" /\ root_exists
    /\ \E n \in 0..MaxFiles : js_files' = n
    /\ fixed_count' = 0
    /\ pc' = "loop"
    /\ UNCHANGED <<patch_vars, root_exists, done_files, exit_status, summary,
                   stderr_lines, fixed_lines, opened_w, changed_files, last>>

\* How much of the new text a write that raises may leave on disk: nothing,
\* half of it, all of it.
Cuts(text) ==
    LET n == Len(add_additional_properties(text))
    IN  {0, n \div 2, n}

\* One iteration of `for js_file in js_files`: process_file and the count.
LoopBody ==
    /\ pc = "loop" /\ done_files < js_files
    /\ \E text \in FileTexts, fault \in Faults :
         \E cut \in (IF fault = "write" THEN Cuts(text) ELSE {0}) :
           LET r == process_file(text, fault, cut)
           IN  /\ fixed_count' = IF r.returned THEN fixed_count + 1 ELSE fixed_count
               /\ stderr_lines' = stderr_lines + r.stderr_line
               /\ fixed_lines' = fixed_lines + r.fixed_line
               /\ opened_w' = IF r.opened THEN opened_w + 1 ELSE opened_w
               /\ changed_files' = IF r.disk # text THEN changed_files + 1
                                   ELSE changed_files
               /\ last' = [content |-> text, disk |-> r.disk,
                           returned |-> r.returned, fault |-> fault,
                           raised |-> r.stderr_line = 1,
                           opened |-> r.opened, patched |-> r.patched]
    /\ done_files' = done_files + 1
    /\ UNCHANGED <<patch_vars, pc, root_exists, js_files, exit_status, summary>>

\* `print(f"\nProcessed {len(js_files)} files, fixed {fixed_count} files")`
\* and the return from main.
Summary ==
    /\ pc = "loop" /\ done_files = js_files
    /\ summary' = <<js_files, fixed_count>>
    /\ exit_status' = 0
    /\ pc' = "done"
    /\ UNCHANGED <<patch_vars, root_exists, js_files, done_files, fixed_count,
                   stderr_lines, fixed_lines, opened_w, changed_files, last>>

Next == RootMissing \/ Enumerate \/ LoopBody \/ Summary

Spec == Init /\ [][Next]_vars

(***************************************************************************)
(* Notions the properties are stated with.  A block is the span from a     *)
(* marker line to the line where brace nesting, counted from the marker    *)
(* line's own braces, first returns to zero, however far away that is.     *)
(***************************************************************************)
\* The marker lines of a text, as 0-based indices.
Markers(lines) == {i \in 0..(Len(lines) - 1) : is_object_line(lines[i + 1])}

Balance(line) == count(line, LBrace) - count(line, RBrace)

\* The first line of lo .. hi - 1 after which nesting is zero, by halves.
RECURSIVE FirstZero(_, _, _, _)
FirstZero(lines, lo, hi, st) ==
    IF lo >= hi \/ st.at # None THEN st
    ELSE IF hi - lo = 1
    THEN LET d == st.depth + Balance(lines[lo + 1])
         IN  [depth |-> d, at |-> IF d = 0 THEN lo ELSE None]
    ELSE LET mid == (lo + hi) \div 2
         IN  FirstZero(lines, mid, hi, FirstZero(lines, lo, mid, st))

\* The closing line of the block of marker i, None when nesting never
\* returns to zero.
BlockEnd(lines, i) ==
    FirstZero(lines, i + 1, Len(lines),
              [depth |-> Balance(lines[i + 1]), at |-> None]).at

\* The braces opened less the braces closed on the lines lo .. hi, by halves.
RECURSIVE Nesting(_, _, _)
Nesting(lines, lo, hi) ==
    IF lo > hi THEN 0
    ELSE IF lo = hi THEN Balance(lines[lo + 1])
    ELSE LET mid == (lo + hi) \div 2
         IN  Nesting(lines, lo, mid) + Nesting(lines, mid + 1, hi)

\* The last line of the block of marker i: its closing line, or the last
\* line of the text.
BlockLast(lines, i) ==
    IF BlockEnd(lines, i) = None THEN Len(lines) - 1 ELSE BlockEnd(lines, i)

\* The number of leading whitespace characters of a line.
LeadingWhitespace(line) ==
    CHOOSE n \in 0..Len(line) :
        /\ \A k \in 1..n : line[k] \in Whitespace
        /\ n = Len(line) \/ line[n + 1] \notin Whitespace

\* A line of spaces followed by `additionalProperties: false,`.
IsSynthesized(line) ==
    /\ Len(line) >= 2
    /\ \A k \in 1..(Len(line) - 2) : line[k] = SP
    /\ line[Len(line) - 1] = AddlTok /\ line[Len(line)] = FalseTok

\* The iteration at marker i appends the marker line alone and moves to i + 1.
OnlyCopies(lines, i) ==
    while_body(lines, i) = [emit |-> <<lines[i + 1]>>, next |-> i + 1]

\* out with the lines at the positions P taken away: the k-th line kept is
\* the one at k plus the number of positions of P with fewer than k kept
\* lines before them.
Without(out, P) ==
    [k \in 1..(Len(out) - Cardinality(P)) |->
        out[k + Cardinality({p \in P :
                    p - 1 - Cardinality({r \in P : r < p}) < k})]]

\* out is ins with synthesized lines inserted and nothing else.
OnlyInsertions(ins, out) ==
    /\ Len(out) >= Len(ins)
    /\ \E P \in SUBSET {q \in 1..Len(out) : IsSynthesized(out[q])} :
         /\ Cardinality(P) = Len(out) - Len(ins)
         /\ Without(out, P) = ins

(***************************************************************************)
(* C1.  Idempotence: a second pass of add_additional_properties over the   *)
(* text the first pass returned changes nothing.                           *)
(***************************************************************************)
C1_Idempotent == pass >= 2 => new_content = content

(***************************************************************************)
(* C2.  A block that has a properties line and no additionalProperties     *)
(* line, and whose closing line is inside the look-ahead, gets exactly one *)
(* new line `additionalProperties: false,`, immediately before its closing *)
(* line and indented 4 more than it, whatever its layout.  Stated for the  *)
(* texts with a single marker line whose block is well nested: the         *)
(* properties line lies before the closing line and no line of the block   *)
(* closes more braces than the block has opened.                           *)
(***************************************************************************)
C2_Block(lines, i) ==
    /\ Markers(lines) = {i}
    /\ BlockEnd(lines, i) # None /\ BlockEnd(lines, i) < i + Window
    /\ \E m \in (i + 1)..(BlockEnd(lines, i) - 1) : In(PropsTok, lines[m + 1])
    /\ \A m \in i..BlockEnd(lines, i) : ~In(AddlTok, lines[m + 1])
    /\ \A m \in i..BlockEnd(lines, i) : Nesting(lines, i, m) >= 0

C2_InsertedBeforeClosing ==
    pass >= 1 =>
        LET lines == split(content)
        IN  \A i \in Markers(lines) :
                C2_Block(lines, i) =>
                    LET e == BlockEnd(lines, i)
                        closing == lines[e + 1]
                    IN  split(new_content) =
                            SubSeq(lines, 1, e)
                            \o <<spaces(LeadingWhitespace(closing) + 4)
                                 \o <<AddlTok, FalseTok>>>>
                            \o SubSeq(lines, e + 1, Len(lines))

(***************************************************************************)
(* C3.  As claimed: when an additionalProperties line lies between a       *)
(* marker line and its block's closing line, no line is inserted anywhere  *)
(* inside the block.  Stated for the first marker of the text, before      *)
(* which nothing is inserted: the output up to the closing line is the     *)
(* input up to it.                                                         *)
(***************************************************************************)
HasAdditional(lines, i) ==
    \E m \in (i + 1)..BlockLast(lines, i) : In(AddlTok, lines[m + 1])

C3_BlockUntouched ==
    pass >= 1 =>
        LET lines == split(content)
            new_lines == split(new_content)
        IN  \A i \in Markers(lines) :
                (/\ \A h \in Markers(lines) : i <= h
                 /\ BlockEnd(lines, i) # None
                 /\ HasAdditional(lines, i))
                => /\ Len(new_lines) > BlockEnd(lines, i)
                   /\ SubSeq(new_lines, 1, BlockEnd(lines, i) + 1)
                          = SubSeq(lines, 1, BlockEnd(lines, i) + 1)

(***************************************************************************)
(* C3, amended.  When an additionalProperties line lies between a marker   *)
(* line and the end of its block, the scan opened at that marker inserts   *)
(* nothing and the cursor moves to the next line; a text whose only marker *)
(* is such a one is returned unchanged.  (Scans opened at other markers    *)
(* inside the block may still insert.)                                     *)
(***************************************************************************)
C3_OwnScanInsertsNothing ==
    pass >= 1 =>
        LET lines == split(content)
        IN  /\ \A i \in Markers(lines) :
                   HasAdditional(lines, i) => OnlyCopies(lines, i)
            /\ (\E i \in Markers(lines) :
                    Markers(lines) = {i} /\ HasAdditional(lines, i))
                   => new_content = content

C3_Witness ==
    /\ pass >= 1
    /\ LET lines == split(content)
       IN  \E i \in Markers(lines) :
               /\ HasAdditional(lines, i) /\ BlockEnd(lines, i) # None
               /\ block_scan(lines, i).has_properties

(***************************************************************************)
(* C4.  The output is the input with synthesized lines inserted and        *)
(* nothing else: every input line is kept verbatim, once and in order, and *)
(* every other output line is spaces followed by                           *)
(* `additionalProperties: false,`.                                         *)
(***************************************************************************)
C4_OnlyInsertions ==
    pass >= 1 => OnlyInsertions(split(content), split(new_content))

C4_Witness ==
    pass >= 1 /\ Len(split(new_content)) >= Len(split(content)) + 2

(***************************************************************************)
(* C5.  A marker whose block has no line with `properties:` gets no        *)
(* insertion: its iteration appends the marker line alone and scanning     *)
(* goes on at the next line.  When no marker precedes it, the output up to *)
(* the block's closing line is the input up to it; a text all of whose     *)
(* markers are such is returned unchanged.                                 *)
(***************************************************************************)
NoProperties(lines, i) ==
    \A m \in i..BlockLast(lines, i) : ~In(PropsTok, lines[m + 1])

C5_NoPropertiesNoInsertion ==
    pass >= 1 =>
        LET lines == split(content)
            new_lines == split(new_content)
        IN  /\ \A i \in Markers(lines) :
                   NoProperties(lines, i) =>
                       /\ ~block_scan(lines, i).has_properties
                       /\ OnlyCopies(lines, i)
                       /\ (/\ \A h \in Markers(lines) : i <= h
                           /\ BlockEnd(lines, i) # None)
                          => SubSeq(new_lines, 1, BlockEnd(lines, i) + 1)
                                 = SubSeq(lines, 1, BlockEnd(lines, i) + 1)
            /\ (\A i \in Markers(lines) : NoProperties(lines, i))
                   => new_content = content

C5_Witness ==
    /\ pass >= 1
    /\ new_content # content
    /\ LET lines == split(content)
       IN  \E i \in Markers(lines) :
               NoProperties(lines, i) /\ BlockEnd(lines, i) # None

(***************************************************************************)
(* C6.  As claimed: the scan looks at the 200 lines after the marker line; *)
(* a closing line among them is recorded, one beyond them is not.          *)
(***************************************************************************)
C6_Window200After ==
    pass >= 1 =>
        LET lines == split(content)
        IN  \A i \in Markers(lines) :
                LET e == BlockEnd(lines, i)
                    c == block_scan(lines, i).closing_brace_line
                IN  /\ (e # None /\ e <= i + Window) => c = e
                    /\ (e # None /\ e > i + Window) => c = None

(***************************************************************************)
(* C6, amended.  The scan looks at the 199 lines after the marker line     *)
(* (200 lines with the marker line).  When nesting does not return to zero *)
(* within them, no closing line is recorded, the scan opened at that       *)
(* marker inserts nothing and the cursor moves to the next line; a text    *)
(* whose only marker is such a one is returned unchanged.                  *)
(***************************************************************************)
BeyondWindow(lines, i) ==
    BlockEnd(lines, i) = None \/ BlockEnd(lines, i) >= i + Window

C6_BeyondWindowUntouched ==
    pass >= 1 =>
        LET lines == split(content)
        IN  /\ \A i \in Markers(lines) :
                   LET c == block_scan(lines, i).closing_brace_line
                   IN  IF BeyondWindow(lines, i)
                       THEN c = None /\ OnlyCopies(lines, i)
                       ELSE c = BlockEnd(lines, i)
            /\ (\E i \in Markers(lines) :
                    Markers(lines) = {i} /\ BeyondWindow(lines, i))
                   => new_content = content

C6_Witness ==
    /\ pass >= 1
    /\ LET lines == split(content)
       IN  \E i \in Markers(lines) :
               /\ BlockEnd(lines, i) # None /\ BlockEnd(lines, i) >= i + Window
               /\ block_scan(lines, i).has_properties
               /\ ~block_scan(lines, i).has_additional_properties

(***************************************************************************)
(* C7.  A file whose text has neither spelling of the marker: process_file *)
(* returns False, does not run the patch pass, does not open the file for  *)
(* writing, and leaves the file as it was.                                 *)
(***************************************************************************)
C7_NoMarkerUntouched ==
    (done_files > 0 /\ ~In(MarkerSQ, last.content) /\ ~In(MarkerDQ, last.content))
    => /\ ~last.returned
       /\ ~last.patched
       /\ ~last.opened
       /\ last.disk = last.content

C7_Witness ==
    /\ done_files > 0 /\ last.fault = "none"
    /\ ~In(MarkerSQ, last.content) /\ ~In(MarkerDQ, last.content)
    /\ Len(last.content) > 0

(***************************************************************************)
(* C8.  A file whose read or write raises is reported on the error stream  *)
(* and not counted as fixed; main goes on with the remaining files, prints *)
(* the summary and ends with exit status 0, whatever the number of         *)
(* failures.                                                               *)
(***************************************************************************)
C8_FailuresRecoverable ==
    /\ (done_files > 0 /\ last.raised) => ~last.returned
    /\ root_exists => fixed_count + stderr_lines <= done_files
    /\ root_exists => exit_status \in {None, 0}
    /\ (pc = "loop" /\ done_files < js_files) =>
           (exit_status = None /\ ENABLED LoopBody)
    /\ (pc = "loop" /\ done_files = js_files) => ENABLED Summary
    /\ pc = "done" =>
           /\ done_files = js_files
           /\ summary = <<js_files, fixed_count>>
           /\ exit_status = 0

C8_Witness ==
    /\ pc = "done" /\ done_files >= 2
    /\ stderr_lines >= 1 /\ ~last.raised /\ last.returned

(***************************************************************************)
(* C9.  Without src/tools main reports the error and exits with a non-zero *)
(* status before any file is enumerated, read or written and without a     *)
(* summary; with it the exit status is zero.                               *)
(***************************************************************************)
C9_ExitStatus ==
    /\ (~root_exists /\ pc # "start") =>
           /\ pc = "exited" /\ exit_status = 1
           /\ stderr_lines = 1
           /\ js_files = 0 /\ done_files = 0 /\ opened_w = 0 /\ changed_files = 0
           /\ summary = <<>>
    /\ root_exists => pc # "exited" /\ exit_status \in {None, 0}
    /\ (root_exists /\ pc = "done") => exit_status = 0
    /\ exit_status = None <=> pc \in {"start", "loop"}

C9_Witness == pc = "exited" /\ ~root_exists

(***************************************************************************)
(* C10.  As claimed: a file is counted as fixed exactly when the run has   *)
(* changed it; at every point fixed_count is the number of files the run   *)
(* has changed; the summary reports the number of files and that count.    *)
(***************************************************************************)
C10_FixedIsChanged ==
    /\ done_files > 0 => (last.returned <=> last.disk # last.content)
    /\ fixed_count = changed_files
    /\ pc = "done" => summary = <<js_files, fixed_count>>

(***************************************************************************)
(* C10, amended.  A file is opened for writing only when the patched text  *)
(* differs from the text read, and is reported and counted as fixed        *)
(* exactly when that write then completes without raising; a write that    *)
(* raises leaves the file as it was or partly written, and uncounted.  So  *)
(* fixed_count is the number of completed rewrites, at most the number of  *)
(* files changed and equal to it when no write raised; the summary reports *)
(* the number of files and fixed_count.                                    *)
(***************************************************************************)
C10_FixedIsRewritten ==
    /\ done_files > 0 =>
           /\ last.returned <=>
                  /\ add_additional_properties(last.content) # last.content
                  /\ ~last.raised
           /\ last.returned =>
                  last.disk = add_additional_properties(last.content)
           /\ last.opened =>
                  add_additional_properties(last.content) # last.content
           /\ last.disk # last.content => last.opened
           /\ ~last.raised => (last.returned <=> last.disk # last.content)
    /\ fixed_count = fixed_lines
    /\ fixed_count <= changed_files /\ changed_files <= opened_w
    /\ stderr_lines = 0 => fixed_count = changed_files
    /\ pc = "done" => summary = <<js_files, fixed_count>>

C10_Witness ==
    /\ pc = "done"
    /\ fixed_count >= 1 /\ changed_files > fixed_count
    /\ last.returned

====
